---------------------------- MODULE Spec2Model ----------------------------
(***************************************************************************)
(* A model of two pieces of the amazon-ssm-agent:                          *)
(*   - the send-offline-command CLI command                                *)
(*     (agent/cli/clicommand/sendcommand.go): input validation, content    *)
(*     load and validation, the write into the local command mailbox and   *)
(*     the bounded polling of the submitted and invalid folders;           *)
(*   - Utility.ExeCommand (agent/updateutil/updateutil.go): detached and   *)
(*     supervised execution of a child process with a timeout watcher.     *)
(* Strings that the code inspects character by character (file names,      *)
(* document names, command ids) are sequences of one-character strings.    *)
(***************************************************************************)
EXTENDS Integers, Sequences, FiniteSets, TLC

(***************************************************************************)
(* Bounds of the model.                                                    *)
(***************************************************************************)
\* longest command id the consumer appends after the separator
MaxSuffixLen == 3
\* largest number of subcommands handed to Execute
MaxSubcommands == 2
\* largest number of values of the content parameter
MaxContentValues == 2
\* largest number of entries of runtimeConfig / mainSteps
MaxItems == 1

(***************************************************************************)
(* strings                                                                 *)
(***************************************************************************)
\* the characters a consumer-assigned suffix is made of
SuffixChars == {"x", "."}

\* all sequences over S of length lo..hi
SeqsOf(S, lo, hi) == UNION {[1..n -> S] : n \in lo..hi}

\* strings.HasPrefix(s, prefix)
HasPrefix(s, prefix) ==
    /\ Len(s) >= Len(prefix)
    /\ SubSeq(s, 1, Len(prefix)) = prefix

\* strings.Contains(s, ch) for a one-character substring
Contains(s, ch) == \E k \in 1..Len(s) : s[k] = ch

\* strings.LastIndex(s, ch) for a one-character substring: the 0-based index
\* of its last occurrence, -1 when there is none
LastIndex(s, ch) ==
    IF Contains(s, ch)
    THEN (CHOOSE k \in 1..Len(s) :
              /\ s[k] = ch
              /\ \A j \in (k+1)..Len(s) : s[j] # ch) - 1
    ELSE -1

\* the Go slice expression s[from:] (from is 0-based)
SliceFrom(s, from) == SubSeq(s, from + 1, Len(s))

(***************************************************************************)
(* sendcommand.go: constants, inputs and values                            *)
(***************************************************************************)
sendCommand == "send-offline-command"
sendCommandContent == "content"

\* the 10 of the polling loop of waitForSubmitStatus
PollAttempts == 10

\* document names uuid.NewV4 can return; all of the same length, none
\* containing the separator
DocIds == {<<"a", "a">>, <<"a", "b">>}

\* the names a consumer-assigned command id can take: it neither begins
\* nor ends with the separator
Suffixes ==
    {c \in SeqsOf(SuffixChars, 1, MaxSuffixLen) :
        c[1] # "." /\ c[Len(c)] # "."}

\* what a consumer appends to the document name: the separator and a
\* command id, or nothing at all
Tails == {<< >>} \cup {<<".">> \o c : c \in Suffixes}

\* the raw values of a parameter: inline json, a URL, neither
RawValues == {"json", "url", "junk"}
\* cliutil.ValidJson and cliutil.ValidUrl
ValidJson(val) == val = "json"
ValidUrl(val) == val = "url"
\* cliutil.FormatFlag
FormatFlag(key) == <<"--", key>>

\* parameter names other than content
UnknownKeys == {"foo", "bar"}
ParamKeys == {sendCommandContent} \cup UnknownKeys

\* a Go map[string][]string over ParamKeys: a function from the keys
\* present to their value lists
ParamMaps ==
    UNION {[K -> {<<"json">>}] : K \in SUBSET UnknownKeys}
ContentLists ==
    SeqsOf(RawValues, 0, 1) \cup (SeqsOf({"json", "junk"}, 2, MaxContentValues))
AllParameters ==
    ParamMaps \cup
    {[k \in (DOMAIN m) \cup {sendCommandContent} |->
         IF k = sendCommandContent THEN v ELSE m[k]] :
       m \in ParamMaps, v \in ContentLists}

SubcommandLists == SeqsOf({"sub"}, 0, MaxSubcommands)

\* contracts.DocumentContent, reduced to the fields validateContent reads:
\* the schema version and the number of entries of runtimeConfig and
\* mainSteps
Docs == [SchemaVersion : {"1.2", "2.0", "0.9"},
         RuntimeConfig : 0..MaxItems,
         MainSteps : 0..MaxItems]
NoDoc == [SchemaVersion |-> "", RuntimeConfig |-> 0, MainSteps |-> 0]

\* a nil error, the empty string
Nil == << >>
EmptyString == << >>

\* the three results of waitForSubmitStatus
SubmittedMsg(commandId) ==
    <<"successfully submitted with command id: %v", commandId>>
InvalidMsg == <<"failed to submit document: document was invalid">>
TimedOutMsg == <<"failed to submit document: timed out">>

VARIABLES
    pc,            \* the statement Execute is at
    subcommands,   \* Execute's arguments
    parameters,
    validation,    \* the list validateSendCommandInput returned
    content,       \* the DocumentContent loadContent returned
    uuid,          \* the value uuid.NewV4 returns in this call
    documentName,  \* the name submitCommandDocument returned
    i,             \* the loop counter of waitForSubmitStatus
    deleteErr,     \* what fileutil.DeleteFile returned (the code drops it)
    pending,       \* names of the files in appconfig.LocalCommandRoot
    submitted,     \* names of the files in LocalCommandRootSubmitted
    invalid,       \* names of the files in LocalCommandRootInvalid
    retErr,        \* the error Execute returned
    retStr         \* the string Execute returned

VARIABLES
    written,       \* what the pending file of this call holds
    observed       \* what the consumer read from that file

fileVars == <<written, observed>>

sendVars == <<pc, subcommands, parameters, validation, content, uuid,
              documentName, i, deleteErr, pending, submitted, invalid,
              retErr, retStr, fileVars>>

VARIABLES
    xpc,           \* the statement ExeCommand is at
    isAsync,       \* ExeCommand's argument
    stdoutWriter,  \* the file setExeOutErr opened for stdout
    stderrWriter,  \* the file setExeOutErr opened for stderr
    process,       \* the child: not started, running, or how it ended
    exitStatus,    \* the child's status.ExitStatus() once it has ended
    reaped,        \* command.Wait has returned
    timer,         \* the time.Timer: armed, fired or stopped
    watcher,       \* the statement killProcessOnTimeout is at
    logged,        \* what killProcessOnTimeout has logged
    timedOut,      \* ExeCommand's local timedOut
    err,           \* the error ExeCommand returned
    firedAfterExit \* history: the timer fired when the child had ended

VARIABLES
    updaterRoot,   \* ExeCommand's arguments updaterRoot, stdOut and stdErr
    stdOut,
    stdErr,
    stdoutPath,    \* setExeOutErr's locals stdOut and stdErr once they hold
    stderrPath     \* the paths of the two files

outVars == <<updaterRoot, stdOut, stdErr, stdoutPath, stderrPath>>

exeVars == <<xpc, isAsync, stdoutWriter, stderrWriter, process, exitStatus,
             reaped, timer, watcher, logged, timedOut, err, firedAfterExit,
             outVars>>

VARIABLES
    spc,              \* the statement of IsServiceRunning each caller is at
    context,          \* the InstanceContext: Platform and PlatformVersion
    systemdInstalled, \* the host has systemd and its systemctl
    onceState,        \* the sync.Once: idle, running or done
    isUsingSystemD,   \* the package variable isUsingSystemD
    isSystemD,        \* each caller's local isSystemD
    commandUsed,      \* the status command each caller ran
    svcResult,        \* what IsServiceRunning returned to each caller
    svcErr,
    builds            \* history: how often the function of once.Do has run

svcVars == <<spc, context, systemdInstalled, onceState, isUsingSystemD,
             isSystemD, commandUsed, svcResult, svcErr, builds>>

(***************************************************************************)
(* validateSendCommandInput.  A message is <<format, argument>>.  The loop *)
(* over the parameters follows Go's map iteration order, which is not      *)
(* fixed: order is an enumeration of the keys of the map.                  *)
(***************************************************************************)
Orders(K) ==
    {o \in [1..Cardinality(K) -> K] : \A k \in K : \E n \in DOMAIN o : o[n] = k}

SubcommandMsg(subs) ==
    <<"send-offline-command does not support subcommand %v", subs>>
EmptyMsg == <<"", << >> >>
RequiredMsg == <<"%v is required", FormatFlag(sendCommandContent)>>
ExpectedOneMsg ==
    <<"expected 1 value for parameter %v", FormatFlag(sendCommandContent)>>
BadValueMsg ==
    <<"%v value must be valid json or a URL", FormatFlag(sendCommandContent)>>
UnknownMsg(key) == <<"unknown parameter %v", FormatFlag(key)>>

\* lines 100-110: the required parameter
RequiredMessages(params) ==
    IF sendCommandContent \notin DOMAIN params
    THEN <<RequiredMsg>>
    ELSE IF Len(params[sendCommandContent]) # 1
    THEN <<ExpectedOneMsg>>
    ELSE LET val == params[sendCommandContent][1]
         IN  IF ~ValidJson(val) /\ ~ValidUrl(val)
             THEN <<BadValueMsg>>
             ELSE << >>

\* a mutant of UnknownMessages: the loop stops at the first unsupported
\* parameter
UnknownMessagesFirstOnly(order) ==
    LET unknown == SelectSeq(order, LAMBDA key : key # sendCommandContent)
    IN  IF unknown = << >> THEN << >> ELSE <<UnknownMsg(Head(unknown))>>

\* lines 113-117: the unsupported parameters, in iteration order
RECURSIVE UnknownMessages(_)
UnknownMessages(order) ==
    IF order = << >>
    THEN << >>
    ELSE (IF Head(order) # sendCommandContent
          THEN <<UnknownMsg(Head(order))>>
          ELSE << >>) \o UnknownMessages(Tail(order))

validateSendCommandInput(subs, params, order) ==
    IF Len(subs) > 0
    THEN <<SubcommandMsg(subs), EmptyMsg>>
    ELSE RequiredMessages(params) \o UnknownMessages(order)

\* a mutant of validateContent: a 2.0 document is checked for its
\* runtimeConfig
validateContentChecksRuntimeConfigOnly(doc) ==
    IF doc.SchemaVersion \in {"1.2", "2.0"}
    THEN IF doc.RuntimeConfig = 0
         THEN <<"runtimeConfig cannot be empty">>
         ELSE Nil
    ELSE <<"unsupported schema version %v", doc.SchemaVersion>>

\* validateContent: the error it returns, Nil when the document passes
validateContent(doc) ==
    IF doc.SchemaVersion = "1.2"
    THEN IF doc.RuntimeConfig = 0
         THEN <<"runtimeConfig cannot be empty">>
         ELSE Nil
    ELSE IF doc.SchemaVersion = "2.0"
    THEN IF doc.MainSteps = 0
         THEN <<"mainSteps cannot be empty">>
         ELSE Nil
    ELSE <<"unsupported schema version %v", doc.SchemaVersion>>

\* isDocumentProcessed: <<processed, commandId>>.  The consumer keeps at
\* most one file per document in a folder, so the listing order of
\* fileutil.GetFileNames does not decide which file is found first.
IsMatch(file, name) == HasPrefix(file, name) /\ Contains(file, ".")

CommandIdOf(file) == SliceFrom(file, LastIndex(file, ".") + 1)

isDocumentProcessed(name, folder) ==
    LET matches == {file \in folder : IsMatch(file, name)}
    IN  IF matches = {}
        THEN <<FALSE, EmptyString>>
        ELSE <<TRUE, CommandIdOf(CHOOSE file \in matches : TRUE)>>

(***************************************************************************)
(* Execute                                                                 *)
(***************************************************************************)
Return(e, str) ==
    /\ retErr' = e
    /\ retStr' = str
    /\ pc' = "done"

\* lines 45-49
Validate ==
    /\ pc = "validate"
    /\ \E order \in Orders(DOMAIN parameters) :
         validation' = validateSendCommandInput(subcommands, parameters, order)
    /\ IF Len(validation') > 0
       THEN Return(<<"errors.New(strings.Join(validation))", validation'>>,
                   EmptyString)
       ELSE pc' = "load" /\ UNCHANGED <<retErr, retStr>>
    /\ UNCHANGED <<svcVars, exeVars, fileVars, subcommands, parameters, content, uuid, documentName, i,
                   deleteErr, pending, submitted, invalid>>

\* line 51 and loadContent: inline json is unmarshalled, anything else is
\* downloaded and then unmarshalled; each step can fail
LoadOutcomes(rawContent) ==
    IF ValidJson(rawContent)
    THEN {"ok", "unmarshal"}
    ELSE {"ok", "unmarshal", "download"}

Load ==
    /\ pc = "load"
    /\ \E outcome \in LoadOutcomes(parameters[sendCommandContent][1]) :
         IF outcome = "ok"
         THEN /\ content' \in Docs
              /\ pc' = "validateContent"
              /\ UNCHANGED <<retErr, retStr>>
         ELSE /\ Return(<<"loadContent failed", outcome>>, EmptyString)
              /\ UNCHANGED content
    /\ UNCHANGED <<svcVars, exeVars, fileVars, subcommands, parameters, validation, uuid, documentName, i,
                   deleteErr, pending, submitted, invalid>>

\* a mutant of ValidateContent: the error of validateContent does not stop
\* Execute
ValidateContentGoesOn ==
    /\ pc = "validateContent"
    /\ pc' = "marshal"
    /\ UNCHANGED <<svcVars, exeVars, fileVars, subcommands, parameters,
                   validation, content, uuid, documentName, i, deleteErr,
                   pending, submitted, invalid, retErr, retStr>>

\* line 53
ValidateContent ==
    /\ pc = "validateContent"
    /\ IF validateContent(content) # Nil
       THEN Return(validateContent(content), EmptyString)
       ELSE pc' = "marshal" /\ UNCHANGED <<retErr, retStr>>
    /\ UNCHANGED <<svcVars, exeVars, fileVars, subcommands, parameters, validation, content, uuid,
                   documentName, i, deleteErr, pending, submitted, invalid>>

\* line 55: jsonutil.Marshal; content is not read after it
Marshal ==
    /\ pc = "marshal"
    /\ \E ok \in BOOLEAN :
         IF ok
         THEN pc' = "submit" /\ UNCHANGED <<retErr, retStr>>
         ELSE Return(<<"jsonutil.Marshal failed">>, EmptyString)
    /\ content' = NoDoc
    /\ UNCHANGED <<svcVars, exeVars, fileVars, subcommands, parameters, validation, uuid, documentName, i,
                   deleteErr, pending, submitted, invalid>>

\* line 57 and submitCommandDocument, lines 163-167: the name is chosen
\* and the pending folder made
MakeDirs ==
    /\ pc = "submit"
    /\ \E ok \in BOOLEAN :
         IF ok
         THEN pc' = "write" /\ UNCHANGED <<retErr, retStr>>
         ELSE Return(<<"failed to submit command">>, EmptyString)
    /\ UNCHANGED <<svcVars, exeVars, fileVars, subcommands, parameters,
                   validation, content, uuid, documentName, i, deleteErr,
                   pending, submitted, invalid>>

\* a mutant of WriteAllTextOutcomes: the text is written in place, and a
\* write that fails can leave the part written so far
WriteAllTextOutcomesInPlace ==
    {<<"complete", TRUE>>, <<"partial", FALSE>>, <<"none", FALSE>>}

\* fileutil.WriteAllText: what it leaves under the name of the file and
\* whether it succeeded: the whole text, or no file and an error
WriteAllTextOutcomes == {<<"complete", TRUE>>, <<"none", FALSE>>}

\* submitCommandDocument, lines 168-171
WriteAllText ==
    /\ pc = "write"
    /\ \E outcome \in WriteAllTextOutcomes :
         /\ written' = outcome[1]
         /\ pending' = IF outcome[1] = "none" THEN pending
                       ELSE pending \cup {uuid}
         /\ IF outcome[2]
            THEN /\ documentName' = uuid
                 /\ pc' = "pollSubmitted"
                 /\ UNCHANGED <<retErr, retStr>>
            ELSE /\ Return(<<"fileutil.WriteAllText failed">>, EmptyString)
                 /\ UNCHANGED documentName
    /\ UNCHANGED <<svcVars, exeVars, observed, subcommands, parameters,
                   validation, content, uuid, i, deleteErr, submitted,
                   invalid>>

(***************************************************************************)
(* waitForSubmitStatus, one directory listing per step                     *)
(***************************************************************************)
\* lines 177-179 and 187-189: the check of the submitted folder
CheckSubmitted(next) ==
    LET found == isDocumentProcessed(documentName, submitted)
    IN  IF found[1]
        THEN Return(Nil, SubmittedMsg(found[2]))
        ELSE pc' = next /\ UNCHANGED <<retErr, retStr>>

PollSubmitted ==
    /\ pc = "pollSubmitted"
    /\ CheckSubmitted("pollInvalid")
    /\ UNCHANGED <<svcVars, exeVars, fileVars, subcommands, parameters, validation, content, uuid,
                   documentName, i, deleteErr, pending, submitted, invalid>>

\* a mutant of PollInvalid: the poll rounds do not look at the invalid folder
PollInvalidIgnoresMatch ==
    /\ pc = "pollInvalid"
    /\ i' = i + 1
    /\ pc' = IF i + 1 < PollAttempts THEN "pollSubmitted" ELSE "delete"
    /\ UNCHANGED <<svcVars, exeVars, fileVars, subcommands, parameters, validation, content, uuid,
                   documentName, deleteErr, pending, submitted, invalid,
                   retErr, retStr>>

\* a mutant of PollInvalid: the loop counter is not incremented
PollInvalidNoIncrement ==
    /\ pc = "pollInvalid"
    /\ IF isDocumentProcessed(documentName, invalid)[1]
       THEN Return(Nil, InvalidMsg)
       ELSE pc' = "pollSubmitted" /\ UNCHANGED <<retErr, retStr>>
    /\ UNCHANGED <<svcVars, exeVars, fileVars, subcommands, parameters, validation, content, uuid,
                   documentName, i, deleteErr, pending, submitted, invalid>>

\* a mutant of PollInvalid: a document found invalid is cleaned out of the
\* pending folder before the result is returned
PollInvalidDeletesOnMatch ==
    /\ pc = "pollInvalid"
    /\ IF isDocumentProcessed(documentName, invalid)[1]
       THEN /\ Return(Nil, InvalidMsg)
            /\ pending' = pending \ {documentName}
            /\ UNCHANGED i
       ELSE /\ i' = i + 1
            /\ pc' = IF i + 1 < PollAttempts THEN "pollSubmitted" ELSE "delete"
            /\ UNCHANGED <<retErr, retStr, pending>>
    /\ UNCHANGED <<svcVars, exeVars, fileVars, subcommands, parameters,
                   validation, content, uuid, documentName, deleteErr,
                   submitted, invalid>>

\* lines 180-184: the check of the invalid folder, the sleep and the loop
\* increment and test
PollInvalid ==
    /\ pc = "pollInvalid"
    /\ IF isDocumentProcessed(documentName, invalid)[1]
       THEN Return(Nil, InvalidMsg) /\ UNCHANGED i
       ELSE /\ i' = i + 1
            /\ pc' = IF i + 1 < PollAttempts THEN "pollSubmitted" ELSE "delete"
            /\ UNCHANGED <<retErr, retStr>>
    /\ UNCHANGED <<svcVars, exeVars, fileVars, subcommands, parameters, validation, content, uuid,
                   documentName, deleteErr, pending, submitted, invalid>>

\* a mutant of DeletePending: the cleanup does not delete the pending file
DeletePendingKeepsFile ==
    /\ pc = "delete"
    /\ deleteErr' = FALSE
    /\ pc' = "finalSubmitted"
    /\ UNCHANGED <<svcVars, exeVars, fileVars, subcommands, parameters, validation, content, uuid,
                   documentName, i, pending, submitted, invalid, retErr,
                   retStr>>

\* a mutant of DeletePending: a failed deletion ends the wait with the
\* timed-out result, without the final check
DeletePendingReturnsOnFailure ==
    /\ pc = "delete"
    /\ \E ok \in BOOLEAN :
         /\ deleteErr' = ~ok
         /\ pending' = IF ok THEN pending \ {documentName} ELSE pending
         /\ IF ok
            THEN pc' = "finalSubmitted" /\ UNCHANGED <<retErr, retStr>>
            ELSE Return(Nil, TimedOutMsg)
    /\ UNCHANGED <<svcVars, exeVars, fileVars, subcommands, parameters,
                   validation, content, uuid, documentName, i, submitted,
                   invalid>>

\* lines 185-186: fileutil.DeleteFile, whose error is dropped
DeletePending ==
    /\ pc = "delete"
    /\ \E ok \in BOOLEAN :
         /\ deleteErr' = ~ok
         /\ pending' = IF ok THEN pending \ {documentName} ELSE pending
    /\ pc' = "finalSubmitted"
    /\ UNCHANGED <<svcVars, exeVars, fileVars, subcommands, parameters, validation, content, uuid,
                   documentName, i, submitted, invalid, retErr, retStr>>

\* a mutant of FinalSubmitted: the final check does not list the submitted
\* folder
FinalSubmittedSkipsCheck ==
    /\ pc = "finalSubmitted"
    /\ pc' = "finalInvalid"
    /\ UNCHANGED <<svcVars, exeVars, fileVars, subcommands, parameters,
                   validation, content, uuid, documentName, i, deleteErr,
                   pending, submitted, invalid, retErr, retStr>>

\* lines 187-189
FinalSubmitted ==
    /\ pc = "finalSubmitted"
    /\ CheckSubmitted("finalInvalid")
    /\ UNCHANGED <<svcVars, exeVars, fileVars, subcommands, parameters, validation, content, uuid,
                   documentName, i, deleteErr, pending, submitted, invalid>>

\* a mutant of FinalInvalid: the timeout is returned as an error
FinalInvalidTimeoutIsError ==
    /\ pc = "finalInvalid"
    /\ IF isDocumentProcessed(documentName, invalid)[1]
       THEN Return(Nil, InvalidMsg)
       ELSE Return(TimedOutMsg, EmptyString)
    /\ UNCHANGED <<svcVars, exeVars, fileVars, subcommands, parameters, validation, content, uuid,
                   documentName, i, deleteErr, pending, submitted, invalid>>

\* lines 190-193
FinalInvalid ==
    /\ pc = "finalInvalid"
    /\ IF isDocumentProcessed(documentName, invalid)[1]
       THEN Return(Nil, InvalidMsg)
       ELSE Return(Nil, TimedOutMsg)
    /\ UNCHANGED <<svcVars, exeVars, fileVars, subcommands, parameters, validation, content, uuid,
                   documentName, i, deleteErr, pending, submitted, invalid>>

(***************************************************************************)
(* The external consumer of the mailbox.  It owns the submitted and        *)
(* invalid folders, names a processed document <name><tail>, keeps one     *)
(* name per document, and learns a document name only from the pending     *)
(* folder: it reads the pending file, and in later steps of its own takes  *)
(* the file out of the folder and creates the submitted or invalid file.   *)
(***************************************************************************)
FilesOf(id, folder) == {file \in folder : HasPrefix(file, id)}

\* the consumer lists the pending folder and reads the file of this call
ConsumerRead ==
    /\ uuid \in pending
    /\ observed = "none"
    /\ observed' = written
    /\ UNCHANGED <<svcVars, exeVars, written, pc, subcommands, parameters,
                   validation, content, uuid, documentName, i, deleteErr,
                   pending, submitted, invalid, retErr, retStr>>

ConsumerAccept ==
    /\ observed # "none"
    /\ documentName # << >>
    /\ \E tail \in Tails :
         /\ FilesOf(documentName, submitted) = {}
         /\ FilesOf(documentName, invalid) \subseteq {documentName \o tail}
         /\ submitted' = submitted \cup {documentName \o tail}
    /\ UNCHANGED <<svcVars, exeVars, fileVars, pc, subcommands, parameters, validation, content, uuid,
                   documentName, i, deleteErr, pending, invalid, retErr,
                   retStr>>

ConsumerReject ==
    /\ observed # "none"
    /\ documentName # << >>
    /\ \E tail \in Tails :
         /\ FilesOf(documentName, invalid) = {}
         /\ FilesOf(documentName, submitted) \subseteq {documentName \o tail}
         /\ invalid' = invalid \cup {documentName \o tail}
    /\ UNCHANGED <<svcVars, exeVars, fileVars, pc, subcommands, parameters, validation, content, uuid,
                   documentName, i, deleteErr, pending, submitted, retErr,
                   retStr>>

\* the consumer takes the document out of the pending folder
ConsumerTake ==
    /\ observed # "none"
    /\ documentName \in pending
    /\ pending' = pending \ {documentName}
    /\ UNCHANGED <<svcVars, exeVars, fileVars, pc, subcommands, parameters, validation, content, uuid,
                   documentName, i, deleteErr, submitted, invalid, retErr,
                   retStr>>

\* what earlier commands left in the submitted and invalid folders: files of
\* documents other than the one this call is going to write
EarlierFiles(id) == {d \o <<".", "x">> : d \in DocIds \ {id}}

SendInit ==
    /\ pc = "validate"
    /\ subcommands \in SubcommandLists
    /\ parameters \in AllParameters
    /\ validation = << >>
    /\ content = NoDoc
    /\ uuid \in DocIds
    /\ documentName = << >>
    /\ i = 0
    /\ deleteErr = FALSE
    /\ pending = {}
    /\ submitted \in SUBSET EarlierFiles(uuid)
    /\ invalid \in SUBSET EarlierFiles(uuid)
    /\ retErr = Nil
    /\ retStr = EmptyString
    /\ written = "none"
    /\ observed = "none"

\* the state of the send-offline-command variables when only ExeCommand runs
SendIdle ==
    /\ pc = "idle"
    /\ subcommands = << >>
    /\ parameters = << >>
    /\ validation = << >>
    /\ content = NoDoc
    /\ uuid = << >>
    /\ documentName = << >>
    /\ i = 0
    /\ deleteErr = FALSE
    /\ pending = {}
    /\ submitted = {}
    /\ invalid = {}
    /\ retErr = Nil
    /\ retStr = EmptyString
    /\ written = "none"
    /\ observed = "none"

(***************************************************************************)
(* updateutil.go: Utility.ExeCommand                                       *)
(***************************************************************************)
\* pluginutil.CommandStoppedPreemptivelyExitCode
CommandStoppedPreemptivelyExitCode == 137

\* the status.ExitStatus() of a child that was ended by a signal
SignalledExitStatus == -1

\* the exit codes a child ends with by itself
ExitCodes == {0, 1, 3}

\* a mutant of ExitCodeReported: the status is never remapped
ExitCodeRaw(exitCode, timeout) == exitCode

\* a mutant of ExitCodeReported: every status is remapped after a timeout
ExitCodeRemappedOnAnyTimeout(exitCode, timeout) ==
    IF timeout THEN CommandStoppedPreemptivelyExitCode ELSE exitCode

\* lines 304-310: the error built from the child's exit status
ExitCodeReported(exitCode, timeout) ==
    IF exitCode = SignalledExitStatus /\ timeout
    THEN CommandStoppedPreemptivelyExitCode
    ELSE exitCode

ExitError(exitCode) ==
    <<"The execution of command returned Exit Status: %d", exitCode>>

\* lines 297-317: command.Wait returns nil for a zero exit and an
\* *exec.ExitError for every other end
ExeResult(status, timeout) ==
    IF status = 0
    THEN Nil
    ELSE ExitError(ExitCodeReported(status, timeout))

\* the names a caller passes for the output files; the empty string asks for
\* the default name
FileNames == {"", "out.log", "err.log"}
UpdaterRoots == {"updates", "updates2"}
NoPath == << >>

DefaultOutputFolder == "output"
DefaultStandOut == "stdout"
DefaultStandErr == "stderr"

\* filepath.Join of path elements that hold no separator and no dot
\* element: the non-empty elements, in order
Join(elems) == SelectSeq(elems, LAMBDA e : e # "")

\* UpdateOutputDirectory, lines 465-467
UpdateOutputDirectory(updateRoot) == Join(<<updateRoot, DefaultOutputFolder>>)

\* UpdateStandOutPath, lines 470-475
UpdateStandOutPath(updateRoot, fileName) ==
    UpdateOutputDirectory(updateRoot)
        \o Join(<<IF fileName = "" THEN DefaultStandOut ELSE fileName>>)

\* the deferred stdoutWriter.Close() and stderrWriter.Close(), lines 284-285
Closed(writer) == IF writer = "open" THEN "closed" ELSE writer

\* a mutant of StartAsync: the detached child gets the timer and the watcher
\* of the supervised mode
StartAsyncArmsTimer ==
    /\ xpc = "entry"
    /\ isAsync
    /\ \E ok \in BOOLEAN :
         IF ok
         THEN /\ process' = "running" /\ err' = Nil
              /\ timer' = "armed" /\ watcher' = "blocked"
         ELSE /\ process' = process /\ err' = <<"cmdStart failed">>
              /\ UNCHANGED <<timer, watcher>>
    /\ xpc' = "done"
    /\ UNCHANGED <<svcVars, sendVars, outVars, isAsync, stdoutWriter,
                   stderrWriter, exitStatus, reaped, timedOut,
                   logged, firedAfterExit>>

\* lines 267-275: detached mode
StartAsync ==
    /\ xpc = "entry"
    /\ isAsync
    /\ \E ok \in BOOLEAN :
         IF ok
         THEN process' = "running" /\ err' = Nil
         ELSE process' = process /\ err' = <<"cmdStart failed">>
    /\ xpc' = "done"
    /\ UNCHANGED <<svcVars, sendVars, outVars, isAsync, stdoutWriter, stderrWriter, exitStatus,
                   reaped, timer, watcher, logged, timedOut, firedAfterExit>>

\* setExeOutErr, lines 524-529: mkDirAll, whose failure is returned at line
\* 282, then the two paths, both built by UpdateStandOutPath
MkDirAll ==
    /\ xpc = "entry"
    /\ ~isAsync
    /\ \E ok \in BOOLEAN :
         IF ok
         THEN /\ xpc' = "openStdout" /\ err' = err
              /\ stdoutPath' = UpdateStandOutPath(updaterRoot, stdOut)
              /\ stderrPath' = UpdateStandOutPath(updaterRoot, stdErr)
         ELSE /\ xpc' = "done" /\ err' = <<"mkDirAll failed">>
              /\ UNCHANGED <<stdoutPath, stderrPath>>
    /\ UNCHANGED <<svcVars, sendVars, updaterRoot, stdOut, stdErr, isAsync, stdoutWriter, stderrWriter, process,
                   exitStatus, reaped, timer, watcher, logged, timedOut,
                   firedAfterExit>>

\* setExeOutErr, lines 533-535
OpenStdout ==
    /\ xpc = "openStdout"
    /\ \E ok \in BOOLEAN :
         IF ok
         THEN /\ stdoutWriter' = "open"
              /\ xpc' = "openStderr"
              /\ err' = err
         ELSE /\ stdoutWriter' = stdoutWriter
              /\ xpc' = "done"
              /\ err' = <<"openFile failed">>
    /\ UNCHANGED <<svcVars, sendVars, outVars, isAsync, stderrWriter, process, exitStatus,
                   reaped, timer, watcher, logged, timedOut, firedAfterExit>>

\* setExeOutErr, lines 539-543, and lines 281-285 of ExeCommand: on a
\* failure ExeCommand returns before it defers the two Close calls
OpenStderr ==
    /\ xpc = "openStderr"
    /\ \E ok \in BOOLEAN :
         IF ok
         THEN /\ stderrWriter' = "open"
              /\ xpc' = "cmdStart"
              /\ err' = err
         ELSE /\ stderrWriter' = stderrWriter
              /\ xpc' = "done"
              /\ err' = <<"openFile failed">>
    /\ UNCHANGED <<svcVars, sendVars, outVars, isAsync, stdoutWriter, process, exitStatus,
                   reaped, timer, watcher, logged, timedOut, firedAfterExit>>

\* lines 287-295: start the child, arm the timer, spawn the watcher; a
\* failed start returns through the deferred Close calls
CmdStart ==
    /\ xpc = "cmdStart"
    /\ \E ok \in BOOLEAN :
         IF ok
         THEN /\ process' = "running"
              /\ timer' = "armed"
              /\ watcher' = "blocked"
              /\ xpc' = "wait"
              /\ UNCHANGED <<err, stdoutWriter, stderrWriter>>
         ELSE /\ err' = <<"cmdStart failed">>
              /\ stdoutWriter' = Closed(stdoutWriter)
              /\ stderrWriter' = Closed(stderrWriter)
              /\ xpc' = "done"
              /\ UNCHANGED <<process, timer, watcher>>
    /\ UNCHANGED <<svcVars, sendVars, outVars, isAsync, exitStatus, reaped, logged, timedOut,
                   firedAfterExit>>

\* line 297: command.Wait returns once the child has ended
Wait ==
    /\ xpc = "wait"
    /\ process \in {"exited", "killed", "signalled"}
    /\ reaped' = TRUE
    /\ xpc' = "timerStop"
    /\ UNCHANGED <<svcVars, sendVars, outVars, isAsync, stdoutWriter, stderrWriter, process,
                   exitStatus, timer, watcher, logged, timedOut, err,
                   firedAfterExit>>

\* lines 298-317: timer.Stop reports false when the timer has already
\* fired; the result is built and the deferred Close calls run
TimerStop ==
    /\ xpc = "timerStop"
    /\ timedOut' = (timer # "armed")
    /\ timer' = IF timer = "armed" THEN "stopped" ELSE timer
    /\ err' = ExeResult(exitStatus, timedOut')
    /\ stdoutWriter' = Closed(stdoutWriter)
    /\ stderrWriter' = Closed(stderrWriter)
    /\ xpc' = "done"
    /\ UNCHANGED <<svcVars, sendVars, outVars, isAsync, process, exitStatus, reaped, watcher,
                   logged, firedAfterExit>>

(***************************************************************************)
(* killProcessOnTimeout and the runtime's timer                            *)
(***************************************************************************)
\* the runtime sends on timer.C when the duration has elapsed
TimerFire ==
    /\ timer = "armed"
    /\ timer' = "fired"
    /\ firedAfterExit' = (process # "running")
    /\ UNCHANGED <<svcVars, sendVars, outVars, xpc, isAsync, stdoutWriter, stderrWriter, process,
                   exitStatus, reaped, watcher, logged, timedOut, err>>

\* lines 506-507
WatcherReceive ==
    /\ watcher = "blocked"
    /\ timer = "fired"
    /\ watcher' = "killing"
    /\ logged' = logged \cup {"Process exceeded timeout. Attempting to kill process!"}
    /\ UNCHANGED <<svcVars, sendVars, outVars, xpc, isAsync, stdoutWriter, stderrWriter, process,
                   exitStatus, reaped, timer, timedOut, err, firedAfterExit>>

\* a mutant of KillEffect: Kill marks the child killed whatever its state
KillEffectAlways(state) == "killed"

\* command.Process.Kill: it ends a running child, does nothing to one that
\* has ended, and is an error once Wait has returned
KillEffect(state) == IF state = "running" THEN "killed" ELSE state

\* lines 510-515
WatcherKill ==
    /\ watcher = "killing"
    /\ process' = KillEffect(process)
    /\ exitStatus' = IF process = "running" THEN SignalledExitStatus
                     ELSE exitStatus
    /\ logged' = logged \cup {IF reaped THEN "os: process already finished"
                              ELSE "Done kill process!"}
    /\ watcher' = "returned"
    /\ UNCHANGED <<svcVars, sendVars, outVars, xpc, isAsync, stdoutWriter, stderrWriter, reaped,
                   timer, timedOut, err, firedAfterExit>>

(***************************************************************************)
(* The child process                                                       *)
(***************************************************************************)
\* the child exits by itself
ChildExit ==
    /\ process = "running"
    /\ process' = "exited"
    /\ exitStatus' \in ExitCodes
    /\ UNCHANGED <<svcVars, sendVars, outVars, xpc, isAsync, stdoutWriter, stderrWriter, reaped,
                   timer, watcher, logged, timedOut, err, firedAfterExit>>

\* something other than the watcher ends the child with a signal
ChildSignalled ==
    /\ process = "running"
    /\ process' = "signalled"
    /\ exitStatus' = SignalledExitStatus
    /\ UNCHANGED <<svcVars, sendVars, outVars, xpc, isAsync, stdoutWriter, stderrWriter, reaped,
                   timer, watcher, logged, timedOut, err, firedAfterExit>>

ExeInit ==
    /\ xpc = "entry"
    /\ isAsync \in BOOLEAN
    /\ stdoutWriter = "nil"
    /\ stderrWriter = "nil"
    /\ process = "none"
    /\ exitStatus = 0
    /\ reaped = FALSE
    /\ timer = "none"
    /\ watcher = "none"
    /\ logged = {}
    /\ timedOut = FALSE
    /\ err = Nil
    /\ firedAfterExit = FALSE
    /\ updaterRoot \in UpdaterRoots
    /\ stdOut \in FileNames
    /\ stdErr \in FileNames
    /\ stdoutPath = NoPath
    /\ stderrPath = NoPath

\* the state of the ExeCommand variables when only Execute runs
ExeIdle ==
    /\ xpc = "idle"
    /\ isAsync = FALSE
    /\ stdoutWriter = "nil"
    /\ stderrWriter = "nil"
    /\ process = "none"
    /\ exitStatus = 0
    /\ reaped = FALSE
    /\ timer = "none"
    /\ watcher = "none"
    /\ logged = {}
    /\ timedOut = FALSE
    /\ err = Nil
    /\ firedAfterExit = FALSE
    /\ updaterRoot = ""
    /\ stdOut = ""
    /\ stdErr = ""
    /\ stdoutPath = NoPath
    /\ stderrPath = NoPath

(***************************************************************************)
(* updateutil.go: IsServiceRunning, IsPlatformUsingSystemD and the lazily   *)
(* built table of minimum versions.  A version string is the list of its   *)
(* dotted numeric parts, or a string that does not parse.                  *)
(***************************************************************************)
\* largest number of concurrent callers of IsServiceRunning
MaxCallers == 2
Callers == 1..MaxCallers

PlatformRedHat == "red hat"
PlatformUbuntu == "ubuntu"
PlatformCentOS == "centos"
\* the platform names of an InstanceContext
Platforms == {PlatformCentOS, PlatformRedHat, PlatformUbuntu,
              "amazon linux", "windows"}

Version(parts) == [valid |-> TRUE, parts |-> parts]
InvalidVersion == [valid |-> FALSE, parts |-> << >>]
\* the platform versions of an InstanceContext
PlatformVersions ==
    {Version(<<6>>), Version(<<7>>), Version(<<7, 2>>), Version(<<14, 4>>),
     Version(<<15>>), Version(<<16, 4>>), InvalidVersion}

\* numeric comparison of two lists of parts, part by part; a list that is
\* a proper prefix of the other is the smaller
RECURSIVE CompareParts(_, _)
CompareParts(a, b) ==
    IF a = << >> /\ b = << >> THEN 0
    ELSE IF a = << >> THEN -1
    ELSE IF b = << >> THEN 1
    ELSE IF Head(a) < Head(b) THEN -1
    ELSE IF Head(a) > Head(b) THEN 1
    ELSE CompareParts(Tail(a), Tail(b))

\* VersionCompare: <<result, err>>
VersionCompare(a, b) ==
    IF ~a.valid \/ ~b.valid
    THEN <<0, <<"invalid version">> >>
    ELSE <<CompareParts(a.parts, b.parts), Nil>>

\* the nil map, and the entries the function of once.Do writes, in order
NilMap == << >>
TableEntries ==
    << <<PlatformCentOS, Version(<<7>>)>>,
       <<PlatformRedHat, Version(<<7>>)>>,
       <<PlatformUbuntu, Version(<<15>>)>> >>

\* m[key] = val on a Go map
MapPut(m, key, val) ==
    [k \in (DOMAIN m) \cup {key} |-> IF k = key THEN val ELSE m[k]]

\* a mutant of IsPlatformUsingSystemD: a version equal to the minimum does
\* not count
IsPlatformUsingSystemDStrictlyNewer(inst, systemDVersions) ==
    IF inst.Platform \in DOMAIN systemDVersions
    THEN LET cmp == VersionCompare(inst.PlatformVersion,
                                   systemDVersions[inst.Platform])
         IN  IF cmp[2] # Nil THEN <<FALSE, cmp[2]>>
             ELSE IF cmp[1] > 0 THEN <<TRUE, Nil>>
             ELSE <<FALSE, Nil>>
    ELSE <<FALSE, Nil>>

\* IsPlatformUsingSystemD, lines 385-395: <<result, err>>
IsPlatformUsingSystemD(inst, systemDVersions) ==
    IF inst.Platform \in DOMAIN systemDVersions
    THEN LET cmp == VersionCompare(inst.PlatformVersion,
                                   systemDVersions[inst.Platform])
         IN  IF cmp[2] # Nil THEN <<FALSE, cmp[2]>>
             ELSE IF cmp[1] >= 0 THEN <<TRUE, Nil>>
             ELSE <<FALSE, Nil>>
    ELSE <<FALSE, Nil>>

SvcAt(c, at) == spc' = [spc EXCEPT ![c] = at]

\* IsServiceRunning returns
SvcReturn(c, result, e) ==
    /\ svcResult' = [svcResult EXCEPT ![c] = result]
    /\ svcErr' = [svcErr EXCEPT ![c] = e]
    /\ SvcAt(c, "done")

\* a mutant of OnceDo: the table is built by every caller that finds it not
\* yet complete, as a check of a flag without the lock of sync.Once does
OnceDoUnguarded(c) ==
    /\ spc[c] = "once"
    /\ IF onceState # "done"
       THEN onceState' = "running" /\ SvcAt(c, "make")
       ELSE onceState' = onceState /\ SvcAt(c, "lookup")
    /\ UNCHANGED <<sendVars, exeVars, builds, context, systemdInstalled,
                   isUsingSystemD, isSystemD, commandUsed, svcResult, svcErr>>

\* line 399: once.Do runs the function in the first caller, returns at
\* once when it has completed, and blocks a caller while it is running
OnceDo(c) ==
    /\ spc[c] = "once"
    /\ onceState # "running"
    /\ IF onceState = "idle"
       THEN onceState' = "running" /\ SvcAt(c, "make")
       ELSE onceState' = onceState /\ SvcAt(c, "lookup")
    /\ UNCHANGED <<sendVars, exeVars, builds, context, systemdInstalled,
                   isUsingSystemD, isSystemD, commandUsed, svcResult, svcErr>>

\* the statements of lines 401-403
PutStatements == <<"put1", "put2", "put3">>

\* line 400
MakeTable(c) ==
    /\ spc[c] = "make"
    /\ isUsingSystemD' = NilMap
    /\ builds' = builds + 1
    /\ SvcAt(c, PutStatements[1])
    /\ UNCHANGED <<sendVars, exeVars, context, systemdInstalled, onceState,
                   isSystemD, commandUsed, svcResult, svcErr>>

\* lines 401-403, one assignment per step, and the return of once.Do after
\* the last
PutEntry(c) ==
    /\ \E n \in 1..Len(TableEntries) :
         /\ spc[c] = PutStatements[n]
         /\ isUsingSystemD' =
              MapPut(isUsingSystemD, TableEntries[n][1], TableEntries[n][2])
         /\ IF n = Len(TableEntries)
            THEN onceState' = "done" /\ SvcAt(c, "lookup")
            ELSE onceState' = onceState /\ SvcAt(c, PutStatements[n + 1])
    /\ UNCHANGED <<sendVars, exeVars, builds, context, systemdInstalled,
                   isSystemD, commandUsed, svcResult, svcErr>>

\* lines 327-329 and 385-395: the table is read through the pointer
\* getMinimumVersionForSystemD returned
Lookup(c) ==
    /\ spc[c] = "lookup"
    /\ LET found == IsPlatformUsingSystemD(context, isUsingSystemD)
       IN  /\ isSystemD' = [isSystemD EXCEPT ![c] = found[1]]
           /\ IF found[2] # Nil
              THEN SvcReturn(c, FALSE, found[2])
              ELSE SvcAt(c, "status") /\ UNCHANGED <<svcResult, svcErr>>
    /\ UNCHANGED <<sendVars, exeVars, builds, context, systemdInstalled, onceState,
                   isUsingSystemD, commandUsed>>

\* lines 343-348: the result for the output of a status command that ran
StatusResult(c, outcome) ==
    IF outcome = "error"
    THEN SvcReturn(c, FALSE, <<"status command failed">>)
    ELSE SvcReturn(c, outcome = "expected", Nil)

\* lines 331-335: systemctl status amazon-ssm-agent.service; it cannot run
\* on a host without systemd
SystemctlStatus(c) ==
    /\ spc[c] = "status"
    /\ isSystemD[c]
    /\ commandUsed' = [commandUsed EXCEPT ![c] = "systemctl"]
    /\ \E outcome \in {"expected", "other", "error"} :
         /\ ~systemdInstalled => outcome = "error"
         /\ StatusResult(c, outcome)
    /\ UNCHANGED <<sendVars, exeVars, builds, context, systemdInstalled, onceState,
                   isUsingSystemD, isSystemD>>

\* lines 336-340: agentStatusOutput, the platform's own status command
AgentStatus(c) ==
    /\ spc[c] = "status"
    /\ ~isSystemD[c]
    /\ commandUsed' = [commandUsed EXCEPT ![c] = "agentStatusOutput"]
    /\ \E outcome \in {"expected", "other", "error"} :
         StatusResult(c, outcome)
    /\ UNCHANGED <<sendVars, exeVars, builds, context, systemdInstalled, onceState,
                   isUsingSystemD, isSystemD>>

SvcInit ==
    /\ spc = [c \in Callers |-> "once"]
    /\ context \in [Platform : Platforms, PlatformVersion : PlatformVersions]
    /\ systemdInstalled \in BOOLEAN
    /\ onceState = "idle"
    /\ isUsingSystemD = NilMap
    /\ isSystemD = [c \in Callers |-> FALSE]
    /\ commandUsed = [c \in Callers |-> "none"]
    /\ svcResult = [c \in Callers |-> FALSE]
    /\ svcErr = [c \in Callers |-> Nil]
    /\ builds = 0

\* the state of these variables when IsServiceRunning is not called
SvcIdle ==
    /\ spc = [c \in Callers |-> "idle"]
    /\ context = [Platform |-> "", PlatformVersion |-> InvalidVersion]
    /\ systemdInstalled = FALSE
    /\ onceState = "idle"
    /\ isUsingSystemD = NilMap
    /\ isSystemD = [c \in Callers |-> FALSE]
    /\ commandUsed = [c \in Callers |-> "none"]
    /\ svcResult = [c \in Callers |-> FALSE]
    /\ svcErr = [c \in Callers |-> Nil]
    /\ builds = 0

vars == <<sendVars, exeVars, svcVars>>

Init == SendInit /\ ExeIdle /\ SvcIdle

\* the steps of Execute
ExecuteStep ==
    \/ Validate
    \/ Load
    \/ ValidateContent
    \/ Marshal
    \/ MakeDirs
    \/ WriteAllText
    \/ PollSubmitted
    \/ PollInvalid
    \/ DeletePending
    \/ FinalSubmitted
    \/ FinalInvalid

Next ==
    \/ ExecuteStep
    \/ ConsumerRead
    \/ ConsumerAccept
    \/ ConsumerReject
    \/ ConsumerTake

Spec == Init /\ [][Next]_vars

\* Execute runs on its own thread and is never suspended for ever
FairSpec == Spec /\ WF_vars(ExecuteStep)

ExeNext ==
    \/ StartAsync
    \/ MkDirAll
    \/ OpenStdout
    \/ OpenStderr
    \/ CmdStart
    \/ Wait
    \/ TimerStop
    \/ TimerFire
    \/ WatcherReceive
    \/ WatcherKill
    \/ ChildExit
    \/ ChildSignalled

InitExe == SendIdle /\ ExeInit /\ SvcIdle

SpecExe == InitExe /\ [][ExeNext]_vars

SvcNext ==
    \E c \in Callers :
        \/ OnceDo(c)
        \/ MakeTable(c)
        \/ PutEntry(c)
        \/ Lookup(c)
        \/ SystemctlStatus(c)
        \/ AgentStatus(c)

InitSvc == SendIdle /\ ExeIdle /\ SvcInit

SpecSvc == InitSvc /\ [][SvcNext]_vars

(***************************************************************************)
(* Properties of waitForSubmitStatus                                       *)
(***************************************************************************)
\* the folder holds a file that isDocumentProcessed takes for this document
HasMatch(folder) ==
    /\ documentName # << >>
    /\ \E file \in folder : IsMatch(file, documentName)

\* a step in which Execute returns
Returns == pc # "done" /\ pc' = "done"

\* C1: whenever waitForSubmitStatus lists the submitted folder (in a poll round
\* or in the final check) and the consumer's file <id>.<c> is there, it
\* returns the success result and the command id in it is the whole suffix c.
C1_ReportsWholeSuffix ==
    [][\A c \in Suffixes :
         ( /\ PollSubmitted \/ FinalSubmitted
           /\ (documentName \o <<".">> \o c) \in submitted )
         => ( /\ pc' = "done"
              /\ retErr' = Nil
              /\ retStr' = SubmittedMsg(c) )]_vars

\* C2: when waitForSubmitStatus has returned and no file matching the document
\* is in the submitted or the invalid folder, the result is the timed-out one
\* and the pending file of the document no longer exists.
C2_TimedOutAndPendingGone ==
    (pc = "done" /\ documentName # << >>
       /\ ~HasMatch(submitted) /\ ~HasMatch(invalid))
    => (retStr = TimedOutMsg /\ documentName \notin pending)

\* C2 as amended: ... the result is the timed-out one, and the pending file no
\* longer exists unless fileutil.DeleteFile failed.
C2_TimedOutAndPendingGoneIfDeleted ==
    (pc = "done" /\ documentName # << >>
       /\ ~HasMatch(submitted) /\ ~HasMatch(invalid))
    => (retStr = TimedOutMsg /\ (~deleteErr => documentName \notin pending))

C2_Witness ==
    /\ pc = "done"
    /\ retStr = TimedOutMsg
    /\ ~HasMatch(submitted) /\ ~HasMatch(invalid)
    /\ ~deleteErr
    /\ documentName \notin pending

\* C3: whenever waitForSubmitStatus returns while a file matching the document
\* is in the invalid folder, whatever else the mailbox holds, it returns the
\* invalid-document result.
C3_InvalidAlwaysReported ==
    [][(Returns /\ HasMatch(invalid)) => retStr' = InvalidMsg]_vars

\* C3 as amended: a check of the invalid folder that finds a matching file
\* returns the invalid-document result; the invalid folder is checked whenever
\* the check of the submitted folder before it found no match; and a return
\* with a matching file in invalid and none in submitted is the
\* invalid-document result.
C3_InvalidReportedUnlessSubmitted ==
    [][ /\ ((PollInvalid \/ FinalInvalid) /\ HasMatch(invalid))
           => (pc' = "done" /\ retErr' = Nil /\ retStr' = InvalidMsg)
        /\ (PollSubmitted /\ ~HasMatch(submitted)) => pc' = "pollInvalid"
        /\ (FinalSubmitted /\ ~HasMatch(submitted)) => pc' = "finalInvalid"
        /\ (Returns /\ HasMatch(invalid) /\ ~HasMatch(submitted))
           => retStr' = InvalidMsg ]_vars

C3_Witness ==
    /\ pc = "done"
    /\ retStr = InvalidMsg
    /\ HasMatch(invalid)
    /\ i > 0

\* the three outcomes of waitForSubmitStatus
IsOutcome(str) ==
    \/ str = InvalidMsg
    \/ str = TimedOutMsg
    \/ (Len(str) = 2 /\ str = SubmittedMsg(str[2]))

\* C4: waitForSubmitStatus makes at most 10 poll rounds, then one cleanup and
\* one final check, returns one of the three outcomes, and always returns once
\* it has started, whatever the consumer does.
C4_PollingTerminates ==
    /\ [](i \in 0..PollAttempts)
    /\ [](pc \in {"pollSubmitted", "pollInvalid"} => i < PollAttempts)
    /\ [](pc \in {"delete", "finalSubmitted", "finalInvalid"}
            => i = PollAttempts)
    /\ [][ /\ pc = "delete" => pc' = "finalSubmitted"
           /\ pc = "finalSubmitted" => pc' \in {"finalInvalid", "done"}
           /\ pc = "finalInvalid" => pc' = "done"
           /\ pc = "done" => pc' = "done" ]_pc
    /\ []((pc = "done" /\ documentName # << >>) => IsOutcome(retStr))
    /\ (documentName # << >>) ~> (pc = "done")

C4_Witness ==
    /\ pc = "done"
    /\ i = PollAttempts
    /\ retStr = TimedOutMsg

\* C5: Execute returns a nil error and a non-empty string for every polling
\* outcome, and a non-nil error and an empty string exactly when a stage
\* before the polling failed.
C5_ErrorOnlyForUpstreamFailure ==
    pc = "done" =>
        /\ documentName # << >> => (retErr = Nil /\ retStr # EmptyString
                                      /\ IsOutcome(retStr))
        /\ documentName = << >> => (retErr # Nil /\ retStr = EmptyString)

C5_Witness ==
    /\ pc = "done"
    /\ retErr = <<"fileutil.WriteAllText failed">>
    /\ retStr = EmptyString

(***************************************************************************)
(* Properties of validateSendCommandInput                                  *)
(***************************************************************************)
\* the violations an input holds: the subcommands given, a content parameter
\* that is missing, has not exactly one value or is neither json nor a URL,
\* and every parameter other than content
Violations(subs, params) ==
    {SubcommandMsg(subs) : x \in {1 : y \in 1..(IF Len(subs) > 0 THEN 1 ELSE 0)}}
    \cup {RequiredMsg : x \in {k \in {sendCommandContent} : k \notin DOMAIN params}}
    \cup {ExpectedOneMsg : x \in {k \in {sendCommandContent} \cap DOMAIN params :
                                     Len(params[k]) # 1}}
    \cup {BadValueMsg : x \in {k \in {sendCommandContent} \cap DOMAIN params :
                                  /\ Len(params[k]) = 1
                                  /\ ~ValidJson(params[k][1])
                                  /\ ~ValidUrl(params[k][1])}}
    \cup {UnknownMsg(k) : k \in (DOMAIN params) \ {sendCommandContent}}

Messages(list) == {list[k] : k \in DOMAIN list}

\* C10: for every input the list validateSendCommandInput returns holds a
\* message for every violation present in the input.
C10_EveryViolationListed ==
    pc # "validate" =>
        Violations(subcommands, parameters) \subseteq Messages(validation)

\* C10 as amended: without subcommands the list holds exactly one message for
\* every violation present; with subcommands it holds the subcommand message
\* and an empty line only, the rest of the validation being skipped.  A
\* non-empty list is the error of Execute.
C10_EveryViolationListedUnlessSubcommand ==
    pc # "validate" =>
        /\ IF Len(subcommands) > 0
           THEN validation = <<SubcommandMsg(subcommands), EmptyMsg>>
           ELSE /\ Messages(validation) = Violations(subcommands, parameters)
                /\ Len(validation) =
                     Cardinality(Violations(subcommands, parameters))
        /\ Len(validation) > 0 =>
             /\ pc = "done"
             /\ retErr = <<"errors.New(strings.Join(validation))", validation>>
             /\ retStr = EmptyString

C10_Witness ==
    /\ pc = "done"
    /\ subcommands = << >>
    /\ Len(validation) = 3
    /\ ExpectedOneMsg \in Messages(validation)

(***************************************************************************)
(* Properties of ExeCommand in supervised mode                             *)
(***************************************************************************)
Supervised == xpc = "done" /\ ~isAsync

\* C6: when the timer fires while the child is still running, the watcher
\* kills the child and ExeCommand returns the error with the
\* stopped-preemptively code.
C6_FiredWhileRunningReportsReservedCode ==
    (Supervised /\ timer = "fired" /\ ~firedAfterExit) =>
        /\ process = "killed"
        /\ err = ExitError(CommandStoppedPreemptivelyExitCode)

\* C6 as amended: a Kill that reaches the running child ends it with the
\* status -1; when the watcher's kill ended the child, ExeCommand returns the
\* error with the stopped-preemptively code; and once the timer has fired the
\* raw -1 is never reported.
C6_KilledOnTimeoutReportsReservedCode ==
    /\ [][(WatcherKill /\ process = "running")
            => (process' = "killed" /\ exitStatus' = SignalledExitStatus)]_vars
    /\ [](Supervised =>
            /\ process = "killed"
                 => err = ExitError(CommandStoppedPreemptivelyExitCode)
            /\ timer = "fired" => err # ExitError(SignalledExitStatus))

C6_Witness ==
    /\ Supervised
    /\ process = "killed"
    /\ timedOut
    /\ err = ExitError(CommandStoppedPreemptivelyExitCode)

\* C7: a child that exits by itself with a code n # 0 makes ExeCommand return
\* the error carrying exactly n, and one that exits with 0 makes it return no
\* error.
C7_ExitCodeCarried ==
    (Supervised /\ process = "exited") =>
        /\ exitStatus # 0 => err = ExitError(exitStatus)
        /\ exitStatus = 0 => err = Nil

C7_Witness ==
    /\ Supervised
    /\ process = "exited"
    /\ exitStatus = 3
    /\ timer = "stopped"
    /\ err = ExitError(3)

\* what C8 says of every execution but for the kill attempts: the child that
\* was started has ended in one way when ExeCommand returns, the way it ended
\* never changes, and a kill attempted on a child that has ended changes
\* neither the child nor anything of ExeCommand.
C8_OneEndAndSoftKill ==
    /\ []((Supervised /\ process # "none")
            => process \in {"exited", "killed", "signalled"})
    /\ [][(process \in {"exited", "killed", "signalled"})
            => (process' = process /\ exitStatus' = exitStatus)]_vars
    /\ [][(WatcherKill /\ process # "running")
            => UNCHANGED <<xpc, process, exitStatus, reaped, timer, timedOut,
                           err, stdoutWriter, stderrWriter>>]_vars

\* C8: exactly one of a normal exit and a forced kill happens; if the child
\* exits before the timer fires no kill is ever attempted on it; a kill
\* attempted on an exited child only logs.
C8_NoKillAfterExit ==
    /\ C8_OneEndAndSoftKill
    /\ [](firedAfterExit => watcher # "returned")

\* C8 as amended: ... if timer.Stop stops the timer before it fires, no kill is
\* ever attempted and the watcher logs nothing ...
C8_NoKillAfterStop ==
    /\ C8_OneEndAndSoftKill
    /\ [](timer = "stopped" => (watcher = "blocked" /\ logged = {}))

C8_Witness ==
    /\ Supervised
    /\ process = "exited"
    /\ watcher = "returned"
    /\ "os: process already finished" \in logged

\* C9: on every exit path of a supervised call the stdout and stderr files
\* the call opened are closed when it returns.
C9_OpenedFilesClosed ==
    Supervised => (stdoutWriter # "open" /\ stderrWriter # "open")

(***************************************************************************)
(* Properties of validateContent                                           *)
(***************************************************************************)
\* the documents the specification accepts
Acceptable(doc) ==
    \/ doc.SchemaVersion = "1.2" /\ doc.RuntimeConfig > 0
    \/ doc.SchemaVersion = "2.0" /\ doc.MainSteps > 0

OutputFile(root, name, default) ==
    <<root, "output", IF name = "" THEN default ELSE name>>

\* C12: in supervised mode the two streams go to two files under
\* <outRoot>/output/: the stdout file is named by stdOut, or stdout when
\* stdOut is empty, the stderr file by stdErr, or stderr when stdErr is empty;
\* with both names unspecified the two files are different.
C12_StreamsGoToNamedFiles ==
    (~isAsync /\ stderrWriter # "nil") =>
        /\ stdoutWriter # "nil"
        /\ stdoutPath = OutputFile(updaterRoot, stdOut, "stdout")
        /\ stderrPath = OutputFile(updaterRoot, stdErr, "stderr")
        /\ (stdOut = "" /\ stdErr = "") => stdoutPath # stderrPath

(***************************************************************************)
(* Properties of IsServiceRunning                                          *)
(***************************************************************************)
\* the minimum versions the specification names
MinimumVersion ==
    [p \in {"centos", "red hat", "ubuntu"} |->
        IF p = "ubuntu" THEN Version(<<15>>) ELSE Version(<<7>>)]

\* the platform is in the table and its version compares greater-or-equal
MeetsMinimum ==
    /\ context.Platform \in DOMAIN MinimumVersion
    /\ LET cmp == VersionCompare(context.PlatformVersion,
                                 MinimumVersion[context.Platform])
       IN  cmp[2] = Nil /\ cmp[1] >= 0

\* the comparison of the platform's version with its minimum failed
CompareFailed ==
    /\ context.Platform \in DOMAIN MinimumVersion
    /\ VersionCompare(context.PlatformVersion,
                      MinimumVersion[context.Platform])[2] # Nil

\* C13: IsPlatformUsingSystemD returns true exactly when the platform is a
\* key of the table and its version compares >= the minimum; otherwise it
\* returns false and IsServiceRunning then uses the platform-specific status
\* command and never the systemctl query, whatever is installed on the host.
C13_BelowMinimumUsesStatusCommand ==
    \A c \in Callers :
        /\ spc[c] \in {"status", "done"} => (isSystemD[c] <=> MeetsMinimum)
        /\ (spc[c] = "done" /\ ~isSystemD[c])
             => commandUsed[c] = "agentStatusOutput"

\* C13 as amended: ... otherwise it returns false; when the comparison itself
\* failed, it returns the error too and IsServiceRunning returns that error
\* without running any status command; in every other case IsServiceRunning
\* uses the platform-specific status command; it never uses the systemctl
\* query, whatever is installed on the host.
C13_BelowMinimumNeverUsesSystemctl ==
    \A c \in Callers :
        /\ spc[c] \in {"status", "done"} => (isSystemD[c] <=> MeetsMinimum)
        /\ (spc[c] = "done" /\ ~isSystemD[c]) =>
             /\ commandUsed[c] # "systemctl"
             /\ IF CompareFailed
                THEN /\ commandUsed[c] = "none"
                     /\ svcResult[c] = FALSE
                     /\ svcErr[c] # Nil
                ELSE commandUsed[c] = "agentStatusOutput"

C13_Witness ==
    \E c \in Callers :
        /\ spc[c] = "done"
        /\ context.Platform = "ubuntu"
        /\ context.PlatformVersion = Version(<<14, 4>>)
        /\ systemdInstalled
        /\ ~isSystemD[c]
        /\ commandUsed[c] = "agentStatusOutput"
        /\ svcResult[c]

(***************************************************************************)
(* Properties of ExeCommand in detached mode                               *)
(***************************************************************************)
\* C14: in detached mode ExeCommand returns as soon as the child is started:
\* it opens no output file, arms no timer, spawns no watcher and never waits
\* for or kills the child; it returns an error only when the start itself
\* fails, and the child's later end never changes what it returned.
C14_DetachedReturnsAtStart ==
    /\ [](isAsync =>
            /\ stdoutWriter = "nil" /\ stderrWriter = "nil"
            /\ stdoutPath = NoPath /\ stderrPath = NoPath
            /\ timer = "none"
            /\ watcher = "none" /\ logged = {}
            /\ ~reaped
            /\ process # "killed"
            /\ xpc \in {"entry", "done"}
            /\ xpc = "entry" => process = "none"
            /\ xpc = "done" => (err # Nil <=> process = "none"))
    /\ [][(isAsync /\ xpc = "done") => (xpc' = "done" /\ err' = err)]_vars

C14_Witness ==
    /\ isAsync
    /\ xpc = "done"
    /\ process = "exited"
    /\ exitStatus = 3
    /\ err = Nil

C16_SubmitterOwnsPendingOnly ==
    [][ExecuteStep =>
         /\ submitted' = submitted
         /\ invalid' = invalid
         /\ pending' # pending =>
              \/ /\ pc = "write"
                 /\ uuid \notin pending
                 /\ pending' = pending \cup {uuid}
                 /\ written' = "complete"
              \/ /\ pc = "delete"
                 /\ i = PollAttempts
                 /\ documentName = uuid
                 /\ pending' = pending \ {uuid}
         /\ written' # written => pc = "write"]_vars

C16_Witness ==
    /\ pc = "finalSubmitted"
    /\ i = PollAttempts
    /\ observed = "none"
    /\ ~deleteErr
    /\ uuid \notin pending
    /\ HasMatch(invalid) = FALSE

\* the invalid folder is listed only right after a listing of the submitted
\* folder that found no match
InvalidCheckedSecond ==
    /\ (pc' = "pollInvalid" /\ pc # pc') => (pc = "pollSubmitted" /\ i' = i)
    /\ (pc' = "finalInvalid" /\ pc # pc') => pc = "finalSubmitted"

\* C17: in a poll round and in the final check the submitted folder is
\* checked before the invalid folder and the first match is returned: with
\* the consumer's files <id>.<c> in both folders, the outcome is Submitted
\* with the consumer's id c, not Invalid.
C17_SubmittedBeforeInvalid ==
    [][ /\ InvalidCheckedSecond
        /\ \A c \in Suffixes :
             ( /\ PollSubmitted \/ FinalSubmitted
               /\ (documentName \o <<".">> \o c) \in submitted
               /\ HasMatch(invalid) )
             => ( /\ pc' = "done"
                  /\ retErr' = Nil
                  /\ retStr' = SubmittedMsg(c) ) ]_vars

\* the part of C17 that does not depend on how the id is cut out of the file
\* name: with matching files in both folders the outcome is a Submitted one
C17_SubmittedWinsTie ==
    [][ /\ InvalidCheckedSecond
        /\ ( /\ PollSubmitted \/ FinalSubmitted
             /\ HasMatch(submitted)
             /\ HasMatch(invalid) )
           => ( /\ pc' = "done"
                /\ retErr' = Nil
                /\ retStr' # InvalidMsg
                /\ retStr' = SubmittedMsg(retStr'[2]) ) ]_vars

\* C18: after the 10 polls waitForSubmitStatus deletes the pending file and
\* then checks the submitted and the invalid folder once more, whether or not
\* the deletion succeeded; the timed-out result is returned only when that
\* final check finds no match, so a transition the consumer made between the
\* last poll and the cleanup is reported as Submitted or Invalid.
C18_FinalCheckAfterCleanup ==
    /\ [][ /\ (pc = "pollInvalid" /\ pc' = "delete") => i' = PollAttempts
           /\ DeletePending => pc' = "finalSubmitted"
           /\ (FinalSubmitted /\ HasMatch(submitted))
                => (pc' = "done" /\ retStr' = SubmittedMsg(retStr'[2]))
           /\ (FinalSubmitted /\ ~HasMatch(submitted)) => pc' = "finalInvalid"
           /\ (FinalInvalid /\ HasMatch(invalid))
                => (pc' = "done" /\ retStr' = InvalidMsg)
           /\ (Returns /\ retStr' = TimedOutMsg)
                => (pc = "finalInvalid" /\ ~HasMatch(invalid)) ]_vars
    /\ (pc = "delete" /\ (HasMatch(submitted) \/ HasMatch(invalid)))
         ~> (pc = "done" /\ retStr # TimedOutMsg)
    /\ [](pc = "done" => [](pc = "done"))

C18_Witness ==
    /\ pc = "done"
    /\ i = PollAttempts
    /\ deleteErr
    /\ retStr = InvalidMsg

\* C19: whenever waitForSubmitStatus has returned the timed-out result, the
\* consumer has not accepted the entry and never accepts it: no file matching
\* the id is in the submitted folder at that moment or at any later moment,
\* also for a consumer that reads the pending file and creates the submitted
\* file as two separate steps.
C19_TimedOutNeverAccepted ==
    (pc = "done" /\ retStr = TimedOutMsg) => ~HasMatch(submitted)

\* C19 as amended: the timed-out result is returned only when the final
\* check found no matching file in the submitted folder when it listed it and
\* none in the invalid folder after that; if the consumer had not read the
\* pending file when the submitter deleted it, the entry is never accepted or
\* rejected afterwards.  A consumer that read the pending file before the
\* deletion can still create the submitted file after the final check: that
\* transition is not reported.
C19_TimedOutNeverAcceptedIfUnread ==
    /\ [][ /\ (FinalSubmitted /\ pc' = "finalInvalid") => ~HasMatch(submitted)
           /\ (Returns /\ retStr' = TimedOutMsg)
                => (pc = "finalInvalid" /\ ~HasMatch(invalid)) ]_vars
    /\ []((pc = "done" /\ retStr = TimedOutMsg /\ observed = "none"
             /\ ~deleteErr)
            => (/\ uuid \notin pending
                /\ ~HasMatch(submitted)
                /\ ~HasMatch(invalid)))

C19_Witness ==
    /\ pc = "done"
    /\ retStr = TimedOutMsg
    /\ observed = "complete"
    /\ uuid \notin pending
    /\ ~HasMatch(submitted)
    /\ ~HasMatch(invalid)

(***************************************************************************)
(* Properties of the watcher                                               *)
(***************************************************************************)
\* the watcher has a next step now or will have one: it is about to call
\* Kill, or it waits on a timer that has fired or can still fire
WatcherCanProceed ==
    \/ watcher = "killing"
    \/ watcher = "blocked" /\ timer \in {"armed", "fired"}

\* C20: the watcher of a supervised call terminates in every execution: once
\* the call has returned, killProcessOnTimeout has returned or is still able
\* to, it does not stay blocked for ever.
C20_WatcherTerminates ==
    (Supervised /\ watcher # "none") =>
        (watcher = "returned" \/ WatcherCanProceed)

\* C21: ExeCommand reports the stopped-preemptively code only when the
\* watcher's own kill ended the child: a child that something else ended with
\* the status -1 is reported with the raw -1, in every interleaving of the
\* child's end, the firing of the timer and the timer.Stop call.
C21_ReservedCodeOnlyForOwnKill ==
    Supervised =>
        /\ err = ExitError(CommandStoppedPreemptivelyExitCode)
             => process = "killed"
        /\ process = "signalled" => err = ExitError(SignalledExitStatus)

(***************************************************************************)
(* Properties of Execute                                                   *)
(***************************************************************************)
\* the stages before the polling, in the order of the specification
StagesBeforePolling ==
    <<"validate", "load", "validateContent", "marshal", "submit", "write">>

\* the statements of the polling stage
PollingStage ==
    {"pollSubmitted", "pollInvalid", "delete", "finalSubmitted",
     "finalInvalid"}

\* C22: Execute runs its stages strictly in the order input validation,
\* content load, content validation, serialization, mailbox write, polling,
\* and stops at the first failing stage: no pending file is created and no
\* polling or deletion of the pending file happens unless every earlier stage
\* succeeded.
C22_StagesInOrder ==
    /\ [][ /\ \A n \in 1..Len(StagesBeforePolling) :
                (pc = StagesBeforePolling[n] /\ pc' # pc) =>
                    \/ /\ pc' = "done"
                       /\ retErr' # Nil
                       /\ retStr' = EmptyString
                       /\ UNCHANGED <<pending, submitted, invalid, written,
                                      documentName, i, deleteErr>>
                    \/ /\ n < Len(StagesBeforePolling)
                       /\ pc' = StagesBeforePolling[n + 1]
                       /\ UNCHANGED <<pending, written, documentName>>
                    \/ /\ n = Len(StagesBeforePolling)
                       /\ pc' = "pollSubmitted"
                       /\ pending' = pending \cup {uuid}
           /\ (pc \in PollingStage) => (pc' \in PollingStage \cup {"done"})
           /\ (pc = "validate" /\ pc' = "load")
                => Violations(subcommands, parameters) = {}
           /\ (pc = "validateContent" /\ pc' = "marshal")
                => Acceptable(content)
           /\ pc = "done" => pc' = "done" ]_vars
    /\ []((documentName = << >>) =>
            /\ pc \notin PollingStage
            /\ uuid \notin pending
            /\ written = "none"
            /\ i = 0
            /\ ~deleteErr)

C22_Witness ==
    /\ pc = "done"
    /\ retErr = <<"jsonutil.Marshal failed">>
    /\ retStr = EmptyString
    /\ pending = {}
    /\ i = 0

(***************************************************************************)
(* Properties of getMinimumVersionForSystemD                               *)
(***************************************************************************)
\* the callers that are inside the function of once.Do
Builders == {c \in Callers : spc[c] \in {"make"} \cup
                                {PutStatements[n] : n \in DOMAIN PutStatements}}

\* the callers getMinimumVersionForSystemD has returned to
Returned == {c \in Callers : spc[c] \in {"lookup", "status", "done"}}

\* C23: under any number of concurrent first calls of
\* getMinimumVersionForSystemD the table is built exactly once, is never
\* written again afterwards, and every caller that returns sees the complete
\* table with its three entries.
C23_TableBuiltOnce ==
    /\ [](/\ builds <= 1
          /\ Cardinality(Builders) <= 1
          /\ Returned # {} =>
               /\ builds = 1
               /\ Builders = {}
               /\ onceState = "done"
               /\ DOMAIN isUsingSystemD = {"centos", "red hat", "ubuntu"}
               /\ isUsingSystemD = MinimumVersion)
    /\ [][ /\ isUsingSystemD' # isUsingSystemD
                => (Cardinality(Builders) = 1 /\ Returned = {})
           /\ Returned # {} => (isUsingSystemD' = isUsingSystemD
                                  /\ builds' = builds) ]_vars

C23_Witness ==
    /\ \A c \in Callers : spc[c] = "done"
    /\ builds = 1
    /\ Cardinality(DOMAIN isUsingSystemD) = 3

=============================================================================
